---------------------------- MODULE Spec2Model ----------------------------
(***************************************************************************)
(* Model of taxid2wgs.py, the resumable WGS fetch-and-normalize pipeline,  *)
(* followed by models of download_file and the FTP connections of a run,   *)
(* of entrez.py (xml_node_to_dict, Nest, query, select, apply), of the     *)
(* requests of acc2gi.py and of the polling of web_blast.py.               *)
(*                                                                         *)
(* Python strings are modelled as sequences of one-character strings, so   *)
(* that slicing, prefix tests and the header regular expression are        *)
(* computed as the code computes them.  A text file is the sequence of its *)
(* lines, each line ending in "\n" as readlines() returns it.              *)
(***************************************************************************)
EXTENDS Integers, Sequences, FiniteSets, TLC

-----------------------------------------------------------------------------
(* Python string primitives *)

Min(a, b) == IF a <= b THEN a ELSE b

Range(s) == {s[i] : i \in 1..Len(s)}

\* s[a:b]
PySlice(s, a, b) == SubSeq(s, a + 1, Min(b, Len(s)))

\* s.startswith(p)
StartsWith(s, p) == Len(p) <= Len(s) /\ SubSeq(s, 1, Len(p)) = p

\* s.endswith(p)
EndsWith(s, p) == Len(p) <= Len(s) /\ SubSeq(s, Len(s) - Len(p) + 1, Len(s)) = p

\* p in s
Contains(s, p) == \E i \in 0..(Len(s) - Len(p)) : SubSeq(s, i + 1, i + Len(p)) = p

Whitespace == {" ", "\n", "\t", "\r"}

RECURSIVE LStrip(_)
LStrip(s) == IF s # <<>> /\ Head(s) \in Whitespace THEN LStrip(Tail(s)) ELSE s

RECURSIVE RStrip(_)
RStrip(s) ==
    IF s # <<>> /\ s[Len(s)] \in Whitespace THEN RStrip(SubSeq(s, 1, Len(s) - 1)) ELSE s

\* s.strip()
Strip(s) == LStrip(RStrip(s))

\* code points of the characters the model uses, for the ordering of sort()
Chars == <<"\n", " ", ",", ".", "0", "1", "2", "3", "4", "5", "6", "7", "8", "9",
           ">", "A", "B", "C", "D", "E", "F", "G", "H", "I", "J", "K", "L", "M",
           "N", "O", "P", "Q", "R", "S", "T", "U", "V", "W", "X", "Y", "Z", "_",
           "a", "b", "c", "d", "e", "f", "g", "h", "i", "j", "k", "l", "m", "n",
           "o", "p", "q", "r", "s", "t", "u", "v", "w", "x", "y", "z", "|">>

Ord(c) == CHOOSE i \in 1..Len(Chars) : Chars[i] = c

\* s < t for Python strings
RECURSIVE StrLess(_, _)
StrLess(s, t) ==
    IF t = <<>> THEN FALSE
    ELSE IF s = <<>> THEN TRUE
    ELSE IF Head(s) = Head(t) THEN StrLess(Tail(s), Tail(t))
    ELSE Ord(Head(s)) < Ord(Head(t))

\* insertion of x into the sorted list l
RECURSIVE Insert(_, _, _)
Insert(x, l, rev) ==
    IF l = <<>> THEN <<x>>
    ELSE IF (IF rev THEN StrLess(Head(l), x) ELSE StrLess(x, Head(l)))
         THEN <<x>> \o l
         ELSE <<Head(l)>> \o Insert(x, Tail(l), rev)

\* l.sort(reverse=rev)
RECURSIVE Sort(_, _)
Sort(l, rev) == IF l = <<>> THEN <<>> ELSE Insert(Head(l), Sort(Tail(l), rev), rev)

\* [x for x in l if x in keep]
RECURSIVE Filter(_, _)
Filter(l, keep) ==
    IF l = <<>> THEN <<>>
    ELSE IF Head(l) \in keep THEN <<Head(l)>> \o Filter(Tail(l), keep)
    ELSE Filter(Tail(l), keep)

\* the orders in which os.scandir() can return the entries of a directory
Perms(S) == {p \in [1..Cardinality(S) -> S] : \A x \in S : \E i \in DOMAIN p : p[i] = x}

-----------------------------------------------------------------------------
(* Module constants of taxid2wgs.py *)

RETRY_TIMES == <<0, 5, 15, 30, 60, 120>>

FSA_WGS_END == <<".", "f", "s", "a", "_", "n", "t", ".", "g", "z">>

-----------------------------------------------------------------------------
(* Header normalizer: the regular expression and the two branches *)

Digit == {"0", "1", "2", "3", "4", "5", "6", "7", "8", "9"}

\* (?:\d){5,8}
MinDigits == 5
MaxDigits == 8

\* line1[0:7]
HeaderWindow == 7

\* pattern (proj(?:\d){5,8}\.\d)\|([\w\W]*)$ matched at offset i with k digits
MatchAt(proj, line, i, k) ==
    LET n == Len(proj) IN
    /\ i + n + k + 3 <= Len(line)
    /\ SubSeq(line, i + 1, i + n) = proj
    /\ \A j \in 1..k : line[i + n + j] \in Digit
    /\ line[i + n + k + 1] = "."
    /\ line[i + n + k + 2] \in Digit
    /\ line[i + n + k + 3] = "|"

\* re.search(pattern, line): leftmost match, greedy digit count
re_search(proj, line) ==
    LET hits == {i \in 0..Len(line) : \E k \in MinDigits..MaxDigits : MatchAt(proj, line, i, k)}
    IN  IF hits = {} THEN [matched |-> FALSE, group1 |-> <<>>, group2 |-> <<>>]
        ELSE LET i == CHOOSE x \in hits : \A y \in hits : x <= y
                 k == CHOOSE x \in MinDigits..MaxDigits :
                        /\ MatchAt(proj, line, i, x)
                        /\ \A y \in MinDigits..MaxDigits : MatchAt(proj, line, i, y) => y <= x
                 n == Len(proj)
             IN  [matched |-> TRUE,
                  group1  |-> SubSeq(line, i + 1, i + n + k + 2),
                  group2  |-> SubSeq(line, i + n + k + 4, Len(line))]

\* the header with the description as matched, not stripped
CanonicalHeader_Unstripped(m) == <<">">> \o m.group1 \o <<" ">> \o m.group2 \o <<"\n">>

\* '>%s %s\n' % (accession, description)
CanonicalHeader(m) == <<">">> \o m.group1 \o <<" ">> \o Strip(m.group2) \o <<"\n">>

\* the loop over all_lines of the old-format branch; out is what was written
\* so far, err the exception that ends the loop
RECURSIVE ParseHeaders(_, _, _)
ParseHeaders(proj, lines, out) ==
    IF lines = <<>> THEN [out |-> out, err |-> "none"]
    ELSE LET line == Head(lines) IN
         IF line[1] # ">"
         THEN ParseHeaders(proj, Tail(lines), Append(out, line))
         ELSE LET m == re_search(proj, line) IN
              IF ~m.matched THEN [out |-> out, err |-> "AttributeError"]
              ELSE ParseHeaders(proj, Tail(lines), Append(out, CanonicalHeader(m)))

\* proj in line1[0:7]
IsNewFormat(proj, line1) == Contains(PySlice(line1, 0, HeaderWindow), proj)

\* the parsing without the test of the first line: every batch is taken to
\* be in the old convention
Normalize_AlwaysParse(proj, all_lines) ==
    IF all_lines = <<>> THEN [out |-> <<>>, err |-> "EOFError"]
    ELSE LET m == re_search(proj, all_lines[1]) IN
         IF ~m.matched THEN [out |-> <<>>, err |-> "AttributeError"]
         ELSE ParseHeaders(proj, all_lines, <<CanonicalHeader(m)>>)

\* what the parsing of one batch writes to the output accumulator
Normalize(proj, all_lines) ==
    IF all_lines = <<>> THEN [out |-> <<>>, err |-> "EOFError"]
    ELSE LET line1 == all_lines[1] IN
         IF IsNewFormat(proj, line1) THEN [out |-> all_lines, err |-> "none"]
         ELSE LET m == re_search(proj, line1) IN
              IF ~m.matched THEN [out |-> <<>>, err |-> "AttributeError"]
              ELSE ParseHeaders(proj, all_lines, <<CanonicalHeader(m)>>)

-----------------------------------------------------------------------------
(* The remote services: the project lookup, the FTP listings and the files *)

\* project identifiers
AAAA01 ==
    <<"A", "A", "A", "A", "0", "1">>

\* second project
BBBB01 ==
    <<"B", "B", "B", "B", "0", "1">>

\* project identifier of the header example
PROJ0001 ==
    <<"P", "R", "O", "J", "0", "0", "0", "1">>

\* remote files of AAAA01: two data files and one of another kind
A1_gz ==
    <<"A", "A", "A", "A", "0", "1", ".", "1", ".", "f", "s", "a", "_",
    "n", "t", ".", "g", "z">>

\* second data file of AAAA01
A2_gz ==
    <<"A", "A", "A", "A", "0", "1", ".", "2", ".", "f", "s", "a", "_",
    "n", "t", ".", "g", "z">>

\* a file that does not end in FSA_WGS_END
A_gbff ==
    <<"A", "A", "A", "A", "0", "1", ".", "g", "b", "f", "f", ".", "g",
    "z">>

\* the data file of BBBB01
B1_gz ==
    <<"B", "B", "B", "B", "0", "1", ".", "1", ".", "f", "s", "a", "_",
    "n", "t", ".", "g", "z">>

\* the data file of PROJ0001
P1_gz ==
    <<"P", "R", "O", "J", "0", "0", "0", "1", ".", "1", ".", "f", "s",
    "a", "_", "n", "t", ".", "g", "z">>

\* old-convention header of AAAA01
OldHdrA1 ==
    <<">", "g", "i", "|", "1", "|", "g", "b", "|", "A", "A", "A", "A",
    "0", "1", "0", "0", "0", "0", "1", ".", "1", "|", " ", "o", "n", "e",
    "\n">>

\* another old-convention header of AAAA01
OldHdrA2 ==
    <<">", "g", "i", "|", "2", "|", "g", "b", "|", "A", "A", "A", "A",
    "0", "1", "0", "0", "0", "0", "2", ".", "1", "|", "t", "w", "o", " ",
    "\n">>

\* new-convention header of AAAA01
NewHdrA ==
    <<">", "A", "A", "A", "A", "0", "1", "0", "0", "0", "0", "3", ".",
    "1", " ", "n", "e", "w", "\n">>

\* new-convention header of BBBB01
NewHdrB ==
    <<">", "B", "B", "B", "B", "0", "1", "0", "0", "0", "0", "1", ".",
    "1", " ", "t", "h", "r", "e", "e", "\n">>

\* a header that names no accession of these projects
BadHdr ==
    <<">", "g", "i", "|", "3", "|", "g", "b", "|", "X", "X", "X", "X",
    "0", "1", "0", "0", "0", "0", "1", ".", "1", "|", "b", "a", "d",
    "\n">>

\* sequence lines
SeqACGT ==
    <<"A", "C", "G", "T", "\n">>

\* sequence line
SeqGGCC ==
    <<"G", "G", "C", "C", "\n">>

\* sequence line
SeqTTAA ==
    <<"T", "T", "A", "A", "\n">>

\* the input line of the header example: PROJ0000 followed by 12345
SpecLine ==
    <<"P", "R", "O", "J", "0", "0", "0", "0", "1", "2", "3", "4", "5",
    ".", "1", "|", "S", "o", "m", "e", " ", "o", "r", "g", "a", "n", "i",
    "s", "m", ",", " ", "c", "o", "m", "p", "l", "e", "t", "e", " ", "g",
    "e", "n", "o", "m", "e", "\n">>

\* the header the example expects for it
SpecLineOut ==
    <<">", "P", "R", "O", "J", "0", "0", "0", "0", "1", "2", "3", "4",
    "5", ".", "1", " ", "S", "o", "m", "e", " ", "o", "r", "g", "a", "n",
    "i", "s", "m", ",", " ", "c", "o", "m", "p", "l", "e", "t", "e", " ",
    "g", "e", "n", "o", "m", "e", "\n">>

\* a header line in which PROJ0001 is followed by the five digits 12345
OldHdrP ==
    <<">", "P", "R", "O", "J", "0", "0", "0", "1", "1", "2", "3", "4",
    "5", ".", "1", "|", "S", "o", "m", "e", " ", "o", "r", "g", "a", "n",
    "i", "s", "m", ",", " ", "c", "o", "m", "p", "l", "e", "t", "e", " ",
    "g", "e", "n", "o", "m", "e", "\n">>

\* its canonical form
OldHdrPOut ==
    <<">", "P", "R", "O", "J", "0", "0", "0", "1", "1", "2", "3", "4",
    "5", ".", "1", " ", "S", "o", "m", "e", " ", "o", "r", "g", "a", "n",
    "i", "s", "m", ",", " ", "c", "o", "m", "p", "l", "e", "t", "e", " ",
    "g", "e", "n", "o", "m", "e", "\n">>

\* a project with a damaged file
CCCC01 ==
    <<"C", "C", "C", "C", "0", "1">>

\* the data file of CCCC01
C1_gz ==
    <<"C", "C", "C", "C", "0", "1", ".", "1", ".", "f", "s", "a", "_",
    "n", "t", ".", "g", "z">>

\* old-convention header of CCCC01
OldHdrC ==
    <<">", "g", "i", "|", "4", "|", "g", "b", "|", "C", "C", "C", "C",
    "0", "1", "0", "0", "0", "0", "1", ".", "1", "|", "f", "o", "u", "r",
    "\n">>

\* what the remote side answers: the lookup response, nlst() of each project
\* directory and the lines of each decompressed file
\* data.replace(b'WGS_VDB://', b'')
RECURSIVE Replace(_, _)
Replace(s, old) ==
    IF s = <<>> THEN <<>>
    ELSE IF StartsWith(s, old) THEN Replace(SubSeq(s, Len(old) + 1, Len(s)), old)
    ELSE <<Head(s)>> \o Replace(Tail(s), old)

\* str.split(sep) for a separator of one character
RECURSIVE Split(_, _)
Split(s, sep) ==
    IF \A i \in 1..Len(s) : s[i] # sep THEN <<s>>
    ELSE LET i == CHOOSE k \in 1..Len(s) : s[k] = sep /\ \A j \in 1..(k - 1) : s[j] # sep
         IN  <<SubSeq(s, 1, i - 1)>> \o Split(SubSeq(s, i + 1, Len(s)), sep)

WGS_VDB == <<"W", "G", "S", "_", "V", "D", "B", ":", "/", "/">>

\* data.replace(b'WGS_VDB://', b'').rstrip().decode().split('\n')
wgs_projects_raw(data) == Split(RStrip(Replace(data, WGS_VDB)), "\n")

\* the responses of the lookup: two projects, one project, an empty body
MainData == WGS_VDB \o BBBB01 \o <<"\n">> \o WGS_VDB \o AAAA01 \o <<"\n">>
CorruptData == WGS_VDB \o CCCC01 \o <<"\n">>
EmptyData == <<>>

\* an entry of the directory /sra/wgs_aux/
AA_dir == <<"A", "A">>

MainServer ==
    [data     |-> MainData,
     listing  |-> (AAAA01 :> <<A1_gz, A2_gz, A_gbff>>) @@ (BBBB01 :> <<B1_gz>>),
     content  |-> (A1_gz :> <<OldHdrA1, SeqACGT>>) @@ (A2_gz :> <<OldHdrA2, SeqGGCC>>)
                  @@ (A_gbff :> <<>>) @@ (B1_gz :> <<NewHdrB, SeqTTAA>>)]

\* a remote side whose only file has a second header of another project
CorruptServer ==
    [data     |-> CorruptData,
     listing  |-> (CCCC01 :> <<C1_gz>>),
     content  |-> (C1_gz :> <<OldHdrC, SeqACGT, BadHdr, SeqGGCC>>)]

\* a remote side whose lookup finds no project for the taxid; the empty
\* project name leads to the directory /sra/wgs_aux/ itself
EmptyServer ==
    [data     |-> EmptyData,
     listing  |-> (<<>> :> <<AA_dir>>),
     content  |-> (AA_dir :> <<>>)]

-----------------------------------------------------------------------------
(* Bounds of the model *)

\* number of times the script is started in one behaviour
MaxRuns == 2

\* lines the output file object holds back before it writes them to the file
BufferLines == 4

\* longest batch given to the normalizer on its own
MaxBatch == 3

-----------------------------------------------------------------------------
(* Exit statuses *)

EXIT_OK == 0
EXIT_NO_FASTA == 1
EXIT_STALE_LEDGER == 2
EXIT_FASTA_EXISTS == 3
EXIT_RETRIES == 5
\* the status of a corrupt file set to that of exhausted retries
EXIT_EOF_AsRetries == EXIT_RETRIES
EXIT_EOF == 4
EXIT_RM_FAILED == 5
EXIT_INTERRUPT == 9
\* status of the interpreter when an exception reaches the top level
EXIT_UNCAUGHT == 1
\* status of an interpreter that ends a KeyboardInterrupt nobody caught by
\* the signal itself (128 + SIGINT)
EXIT_SIGINT == 130

-----------------------------------------------------------------------------
VARIABLES
    server,        \* the remote services (an input, never changed)
    tmpfile,       \* the ledger WGS4taxid<taxid>.tmp: [exists, lines]
    fstfile,       \* the output  WGS4taxid<taxid>.fa: [exists, lines]
    disk,          \* the downloads in the current directory: absent, partial, complete
    pc,            \* position of the process in main(); "idle" when none runs
    args,          \* the command line flags of the current or last run
    previous,      \* list of data files found at startup
    parsed,        \* projects read from the ledger at startup
    wgs_projects,  \* projects to process, sorted
    pidx,          \* position of the project loop in wgs_projects
    to_download,   \* files of the current project
    fidx,          \* position of the file loop in to_download
    retry,         \* position of a retry loop in RETRY_TIMES
    ftp,           \* the FTP object of the current project: "None" or "open"
    wgs,           \* lines written to the output file object and not yet in the file
    exitcode,      \* exit status of the last run, -1 while none has ended, -9 when killed
    cause,         \* the place the last run ended at
    runs,          \* history: number of runs started
    slept,         \* history: the sleeps of the current retry loop
    projout,       \* history: lines written for each project when it was last processed
    scenario,      \* history: "fresh", "aborted" (a run stopped inside a project), "other"
    rerun          \* history: the current or last run is a resume run started after a
                   \* completed run

fsVars   == <<tmpfile, fstfile, disk>>
procVars == <<previous, parsed, wgs_projects, pidx, to_download, fidx, retry, ftp, slept>>

\* download_file of taxid2wgs.py, statement by statement
VARIABLES
    dl_file,       \* number of the file that download_file is called for
    mpc,           \* position of the main thread in download_file
    bpc,           \* position of the thread that runs bkg_download in it
    thrd,          \* the Thread object: "none", "new", "alive", "dead"
    periods,       \* history: periods of 30 seconds gone by during the transfer
    noops          \* history: NOOP commands sent during the transfer

\* the FTP connections of a run of taxid2wgs.py
VARIABLES
    cpc,           \* position in the loops of a project
    cretry,        \* position of the retry loop in RETRY_TIMES
    cftp,          \* the variable ftp: "None" or "bound" to a connection
    conns,         \* number of connections that are open
    cproj          \* number of the project

\* a call of a function of entrez.py or acc2gi.py
VARIABLES
    call,          \* the function and its arguments
    result,        \* what the call returned or raised
    returned       \* the call is over

\* web_blast.py
VARIABLES
    blast_pc,      \* position in main()
    status,        \* the status of the last check
    polls,         \* history: number of status checks done
    waited         \* history: the sleeps, in order

xferVars  == <<dl_file, mpc, bpc, thrd, periods, noops>>
connVars  == <<cpc, cretry, cftp, conns, cproj>>
libVars   == <<call, result, returned>>
blastVars == <<blast_pc, status, polls, waited>>

\* the state of the programs that a specification is not about
elsewhere == <<xferVars, connVars, libVars, blastVars>>

wgsVars == <<server, fsVars, pc, args, procVars, wgs, exitcode, cause, runs, projout, scenario,
             rerun>>
vars == <<wgsVars, elsewhere>>

XferIdle ==
    /\ dl_file = 0
    /\ mpc = "none"
    /\ bpc = "none"
    /\ thrd = "none"
    /\ periods = 0
    /\ noops = 0

ConnIdle ==
    /\ cpc = "none"
    /\ cretry = 0
    /\ cftp = "None"
    /\ conns = 0
    /\ cproj = 0

LibIdle ==
    /\ call = <<>>
    /\ result = <<>>
    /\ returned = FALSE

BlastIdle ==
    /\ blast_pc = "none"
    /\ status = "None"
    /\ polls = 0
    /\ waited = <<>>

NoFile == [exists |-> FALSE, lines |-> <<>>]

Flags == {a \in [force : BOOLEAN, resume : BOOLEAN, download : BOOLEAN, reverse : BOOLEAN] :
            ~(a.force /\ a.resume)}

AllFiles(srv) == UNION {Range(srv.listing[p]) : p \in DOMAIN srv.listing}

\* for proj in wgs_projects / for filename in to_download
proj == wgs_projects[pidx]
filename == to_download[fidx]

\* the memory of a process that does not run
NoProcess ==
    /\ previous' = <<>>
    /\ parsed' = <<>>
    /\ wgs_projects' = <<>>
    /\ pidx' = 0
    /\ to_download' = <<>>
    /\ fidx' = 0
    /\ retry' = 0
    /\ ftp' = "None"
    /\ slept' = <<>>
    /\ wgs' = <<>>

\* no run of taxid2wgs.py yet, in an empty directory
EmptyDirectory(srv) ==
    /\ server = srv
    /\ tmpfile = NoFile
    /\ fstfile = NoFile
    /\ disk = [f \in AllFiles(srv) |-> "absent"]
    /\ pc = "idle"
    /\ args = [force |-> FALSE, resume |-> FALSE, download |-> FALSE, reverse |-> FALSE]
    /\ previous = <<>>
    /\ parsed = <<>>
    /\ wgs_projects = <<>>
    /\ pidx = 0
    /\ to_download = <<>>
    /\ fidx = 0
    /\ retry = 0
    /\ ftp = "None"
    /\ wgs = <<>>
    /\ exitcode = -1
    /\ cause = "none"
    /\ runs = 0
    /\ slept = <<>>
    /\ projout = [p \in DOMAIN srv.listing |-> <<>>]
    /\ scenario = "fresh"
    /\ rerun = FALSE

\* the state before the first run: an empty directory
InitWith(srv) ==
    /\ XferIdle /\ ConnIdle /\ LibIdle /\ BlastIdle
    /\ EmptyDirectory(srv)

Init == \E srv \in {MainServer, CorruptServer, EmptyServer} : InitWith(srv)

-----------------------------------------------------------------------------
(* Termination of the process *)

\* closing the output file (leaving the with block) writes the pending lines
Closed(file, buf) ==
    IF args.download \/ ~file.exists THEN file
    ELSE [exists |-> TRUE, lines |-> file.lines \o buf]

\* wgs.write / wgs.writelines: the lines stay in the buffer of the file
\* object until more than BufferLines are pending
WgsWrite(file, buf, lines) ==
    LET pending == buf \o lines IN
    IF Len(pending) > BufferLines
    THEN [file |-> [exists |-> TRUE, lines |-> file.lines \o pending], buf |-> <<>>]
    ELSE [file |-> file, buf |-> pending]

\* a run that stops inside a project after it wrote records of that project
Aborted(sc, written) ==
    IF written # <<>> /\ sc \in {"fresh", "aborted"} THEN "aborted" ELSE sc

\* exit(code) before the files are open
ExitEarly(code, why) ==
    /\ pc' = "idle"
    /\ exitcode' = code
    /\ cause' = why
    /\ NoProcess
    /\ UNCHANGED rerun

\* exit(code) or an uncaught exception inside the with block: the files are
\* closed, file being the output file and buf its pending lines
ExitOpen(code, why, file, buf) ==
    /\ pc' = "idle"
    /\ exitcode' = code
    /\ cause' = why
    /\ fstfile' = Closed(file, buf)
    /\ NoProcess
    /\ UNCHANGED rerun

-----------------------------------------------------------------------------
(* Startup: the command line and the checks of the local state *)

\* [proj.rstrip() for proj in open(tmpfile).readlines()]
ReadLedger(file) == [i \in 1..Len(file.lines) |-> RStrip(file.lines[i])]

Proceed(done, tmpf, fstf) ==
    [go |-> TRUE, exit |-> -1, why |-> "running", parsed |-> done, tmpfile |-> tmpf, fstfile |-> fstf]

\* a refusal that clears the ledger
Refuse_Clearing(code, why, tmpf, fstf) ==
    [go |-> FALSE, exit |-> code, why |-> why, parsed |-> <<>>, tmpfile |-> NoFile, fstfile |-> fstf]

Refuse(code, why, tmpf, fstf) ==
    [go |-> FALSE, exit |-> code, why |-> why, parsed |-> <<>>, tmpfile |-> tmpf, fstfile |-> fstf]

\* the checks of the ledger and the output file against the flags
CheckState(a, tmpf, fstf) ==
    IF tmpf.exists
    THEN IF a.force THEN Proceed(<<>>, NoFile, fstf)
         ELSE IF a.download THEN Proceed(ReadLedger(tmpf), tmpf, fstf)
         ELSE IF a.resume
              THEN IF ReadLedger(tmpf) # <<>> /\ ~fstf.exists
                   THEN Refuse(EXIT_NO_FASTA, "no_fasta", tmpf, fstf)
                   ELSE Proceed(ReadLedger(tmpf), tmpf, fstf)
         ELSE Refuse(EXIT_STALE_LEDGER, "stale_ledger", tmpf, fstf)
    ELSE IF fstf.exists
         THEN IF a.force THEN Proceed(<<>>, tmpf, NoFile)
              ELSE Refuse(EXIT_FASTA_EXISTS, "fasta_exists", tmpf, fstf)
         ELSE Proceed(<<>>, tmpf, fstf)

\* a completed run: it ended at "All OK!", with or without the removal of
\* the ledger, or found nothing to process
Completed(why) == why \in {"done", "rm_failed", "nothing"}

\* the scenario "a run is aborted inside a project, then the script is run
\* with resume": only runs without force and download, the ones after the
\* abort with resume
Follows(sc, a) ==
    IF ~a.force /\ ~a.download /\ (sc = "fresh" \/ (sc = "aborted" /\ a.resume))
    THEN sc ELSE "other"

Startup ==
    /\ pc = "idle"
    /\ runs < MaxRuns
    /\ \E a \in Flags :
       \E prev \in Perms({f \in DOMAIN disk : disk[f] # "absent" /\ EndsWith(f, FSA_WGS_END)}) :
         LET r == CheckState(a, tmpfile, fstfile) IN
         /\ args' = a
         /\ tmpfile' = r.tmpfile
         /\ fstfile' = r.fstfile
         /\ exitcode' = r.exit
         /\ cause' = r.why
         /\ scenario' = Follows(scenario, a)
         /\ rerun' = (a.resume /\ Completed(cause))
         /\ IF r.go
            THEN /\ pc' = "lookup"
                 /\ previous' = prev
                 /\ parsed' = r.parsed
                 /\ UNCHANGED <<wgs_projects, pidx, to_download, fidx, retry, ftp, slept, wgs>>
            ELSE /\ pc' = "idle"
                 /\ NoProcess
    /\ runs' = runs + 1
    /\ UNCHANGED <<server, elsewhere, disk, projout>>

-----------------------------------------------------------------------------
(* The project list *)

\* the project list without the filter on the ledger
Remaining_KeepAll(raw, done) == raw

\* [proj for proj in wgs_projects_raw if proj not in parsed]
Remaining(raw, done) == Filter(raw, Range(raw) \ Range(done))

\* open(file, 'a')
OpenAppend(file) == IF args.download THEN file ELSE [exists |-> TRUE, lines |-> file.lines]

GetProjects ==
    /\ pc = "lookup"
    /\ LET todo == Remaining(wgs_projects_raw(server.data), parsed) IN
       IF todo = <<>>
       THEN /\ ExitEarly(EXIT_OK, "nothing")
            /\ UNCHANGED <<tmpfile, fstfile>>
       ELSE /\ wgs_projects' = Sort(todo, args.reverse)
            /\ pidx' = 1
            /\ fstfile' = OpenAppend(fstfile)
            /\ tmpfile' = OpenAppend(tmpfile)
            /\ pc' = "project"
            /\ UNCHANGED <<previous, parsed, to_download, fidx, retry, ftp, slept, wgs,
                           exitcode, cause, rerun>>
    /\ UNCHANGED <<server, elsewhere, disk, args, runs, projout, scenario>>

\* [f for f in previous if f.startswith(proj)]
Downloaded(prev, p) == Filter(prev, {f \in Range(prev) : StartsWith(f, p)})

\* head of the loop over the projects
NextProject ==
    /\ pc = "project"
    /\ IF pidx > Len(wgs_projects)
       THEN /\ pc' = "finish"
            /\ UNCHANGED <<to_download, fidx, retry, ftp, slept, projout>>
       ELSE LET downloaded == IF args.resume THEN Downloaded(previous, proj) ELSE <<>> IN
            /\ ftp' = "None"
            /\ projout' = IF args.download THEN projout ELSE [projout EXCEPT ![proj] = <<>>]
            /\ IF downloaded # <<>>
               THEN /\ to_download' = downloaded
                    /\ fidx' = 1
                    /\ pc' = "file"
                    /\ UNCHANGED <<retry, slept>>
               ELSE /\ to_download' = <<>>
                    /\ fidx' = 0
                    /\ retry' = 1
                    /\ slept' = <<>>
                    /\ pc' = "list"
    /\ UNCHANGED <<server, elsewhere, fsVars, args, previous, parsed, wgs_projects, pidx, wgs, exitcode,
                   cause, runs, scenario, rerun>>

-----------------------------------------------------------------------------
(* Retry-wrapped transport *)

\* a loop that sleeps the first entry of the schedule before every attempt
retry_time_First == RETRY_TIMES[1]

\* for retry_time in RETRY_TIMES
retry_time == RETRY_TIMES[retry]

\* the for loop has no entry left: its else clause runs
Exhausted(r) == r = Len(RETRY_TIMES)

\* [file for file in filenames if file.endswith(FSA_WGS_END)]
DataFiles(filenames) == Filter(filenames, {f \in Range(filenames) : EndsWith(f, FSA_WGS_END)})

\* what one attempt can end in: success, an exception of EXCEPTS raised by the
\* FTP constructor or by a later command, KeyboardInterrupt inside the try
\* block, an exception outside EXCEPTS (ftplib.error_perm), or
\* KeyboardInterrupt during time.sleep(retry_time), which is outside the try
\* block
Outcomes == {"ok", "connect_error", "session_error", "interrupt", "fatal", "sleep_interrupt"}

\* KeyboardInterrupt raised outside the try block reaches the top level; the
\* status depends on the version of the interpreter
SleepInterrupted(file, buf) ==
    \E code \in {EXIT_UNCAUGHT, EXIT_SIGINT} : ExitOpen(code, "sleep_interrupt", file, buf)

\* what no step of the loops over projects and files changes
loopFrame == <<previous, parsed, wgs_projects, pidx, rerun>>

\* one iteration of the loop that lists the directory of the project
ListAttempt ==
    /\ pc = "list"
    /\ \E o \in Outcomes :
        CASE o = "ok" ->
                /\ slept' = Append(slept, retry_time)
                /\ ftp' = "open"
                /\ to_download' = DataFiles(server.listing[proj])
                /\ fidx' = 1
                /\ pc' = "file"
                /\ UNCHANGED <<loopFrame, retry, exitcode, cause, fstfile, wgs>>
          [] o \in {"connect_error", "session_error"} ->
                IF Exhausted(retry)
                THEN ExitOpen(EXIT_RETRIES, "retries", fstfile, wgs)
                ELSE /\ slept' = Append(slept, retry_time)
                     /\ ftp' = IF o = "session_error" THEN "open" ELSE ftp
                     /\ retry' = retry + 1
                     /\ UNCHANGED <<loopFrame, to_download, fidx, pc, exitcode, cause,
                                    fstfile, wgs>>
          [] o = "interrupt" -> ExitOpen(EXIT_INTERRUPT, "interrupt", fstfile, wgs)
          [] o = "fatal" -> ExitOpen(EXIT_UNCAUGHT, "ftp_error", fstfile, wgs)
          [] o = "sleep_interrupt" ->
                /\ retry_time # 0
                /\ SleepInterrupted(fstfile, wgs)
    /\ scenario' = IF pc' = "idle" THEN Aborted(scenario, projout[proj]) ELSE scenario
    /\ UNCHANGED <<server, elsewhere, tmpfile, disk, args, runs, projout>>

\* head of the loop over the files of the project
NextFile ==
    /\ pc = "file"
    /\ IF fidx > Len(to_download)
       THEN pc' = "projdone" /\ UNCHANGED <<retry, slept>>
       ELSE IF ~args.force /\ disk[filename] # "absent"
            THEN pc' = "parse" /\ UNCHANGED <<retry, slept>>
            ELSE pc' = "download" /\ retry' = 1 /\ slept' = <<>>
    /\ UNCHANGED <<server, elsewhere, fsVars, args, loopFrame, to_download, fidx, ftp, wgs, exitcode,
                   cause, runs, projout, scenario>>

\* os.remove(filename) inside try/except OSError
Removed(d, f) == [d EXCEPT ![f] = "absent"]

\* download_file opened the file for writing and did not complete it
Truncated(d, f) == [d EXCEPT ![f] = "partial"]

\* one iteration of the loop that retrieves a file; the connection is
\* opened again when retry_time is not 0
DownloadAttempt ==
    /\ pc = "download"
    /\ \E o \in Outcomes :
        /\ o = "connect_error" => retry_time # 0
        /\ (ftp = "None" /\ retry_time = 0) => o \in {"interrupt", "fatal"}
        /\ CASE o = "ok" ->
                /\ slept' = Append(slept, retry_time)
                /\ disk' = [disk EXCEPT ![filename] = "complete"]
                /\ ftp' = "open"
                /\ pc' = "parse"
                /\ UNCHANGED <<loopFrame, to_download, fidx, retry, exitcode, cause,
                               fstfile, wgs>>
             [] o \in {"connect_error", "session_error"} ->
                LET d == IF o = "session_error" THEN Truncated(disk, filename) ELSE disk IN
                IF Exhausted(retry)
                THEN /\ disk' = Removed(d, filename)
                     /\ ExitOpen(EXIT_RETRIES, "retries", fstfile, wgs)
                ELSE /\ slept' = Append(slept, retry_time)
                     /\ disk' = d
                     /\ ftp' = "open"
                     /\ retry' = retry + 1
                     /\ UNCHANGED <<loopFrame, to_download, fidx, pc, exitcode, cause,
                                    fstfile, wgs>>
             [] o = "interrupt" ->
                /\ disk' = Removed(disk, filename)
                /\ ExitOpen(EXIT_INTERRUPT, "interrupt", fstfile, wgs)
             [] o = "fatal" ->
                /\ \E touched \in BOOLEAN :
                     /\ (ftp = "None" /\ retry_time = 0) => touched
                     /\ disk' = IF touched THEN Truncated(disk, filename) ELSE disk
                /\ ExitOpen(EXIT_UNCAUGHT, "ftp_error", fstfile, wgs)
             [] o = "sleep_interrupt" ->
                /\ retry_time # 0
                /\ UNCHANGED disk
                /\ SleepInterrupted(fstfile, wgs)
    /\ scenario' = IF pc' = "idle" THEN Aborted(scenario, projout[proj]) ELSE scenario
    /\ UNCHANGED <<server, elsewhere, tmpfile, args, runs, projout>>

-----------------------------------------------------------------------------
(* Parsing of a file, end of a project, end of the run *)

\* gzip.open(filename).readlines() and the normalization of the batch
ParseFile ==
    /\ pc = "parse"
    /\ IF args.download
       THEN /\ pc' = "file"
            /\ fidx' = fidx + 1
            /\ UNCHANGED <<loopFrame, to_download, retry, ftp, slept, fstfile, wgs,
                           exitcode, cause, projout, scenario>>
       ELSE IF disk[filename] = "partial"
       THEN /\ ExitOpen(EXIT_EOF, "eof", fstfile, wgs)
            /\ scenario' = Aborted(scenario, projout[proj])
            /\ UNCHANGED projout
       ELSE LET r == Normalize(proj, server.content[filename])
                w == WgsWrite(fstfile, wgs, r.out)
            IN  /\ projout' = [projout EXCEPT ![proj] = @ \o r.out]
                /\ CASE r.err = "none" ->
                          /\ fstfile' = w.file
                          /\ wgs' = w.buf
                          /\ pc' = "file"
                          /\ fidx' = fidx + 1
                          /\ UNCHANGED <<loopFrame, to_download, retry, ftp, slept,
                                         exitcode, cause, scenario>>
                     [] r.err = "EOFError" ->
                          /\ ExitOpen(EXIT_EOF, "eof", w.file, w.buf)
                          /\ scenario' = Aborted(scenario, projout[proj] \o r.out)
                     [] r.err = "AttributeError" ->
                          /\ ExitOpen(EXIT_UNCAUGHT, "header", w.file, w.buf)
                          /\ scenario' = Aborted(scenario, projout[proj] \o r.out)
    /\ UNCHANGED <<server, elsewhere, tmpfile, disk, args, runs>>

\* the project is done: ftp.quit(), tmp.write(proj + '\n'), tmp.flush()
ProjectDone ==
    /\ pc = "projdone"
    /\ ftp' = "None"
    /\ tmpfile' = IF args.download THEN tmpfile
                  ELSE [exists |-> TRUE, lines |-> Append(tmpfile.lines, proj \o <<"\n">>)]
    /\ pidx' = pidx + 1
    /\ pc' = "project"
    /\ UNCHANGED <<server, elsewhere, fstfile, disk, args, previous, parsed, wgs_projects, to_download,
                   fidx, retry, slept, wgs, exitcode, cause, runs, projout, scenario, rerun>>

\* after the loop: the files are closed and the ledger is removed
Finish ==
    /\ pc = "finish"
    /\ IF args.download
       THEN /\ ExitOpen(EXIT_OK, "downloaded", fstfile, wgs)
            /\ UNCHANGED tmpfile
       ELSE \E removed \in BOOLEAN :
              IF removed
              THEN /\ tmpfile' = NoFile
                   /\ ExitOpen(EXIT_OK, "done", fstfile, wgs)
              ELSE /\ UNCHANGED tmpfile
                   /\ ExitOpen(EXIT_RM_FAILED, "rm_failed", fstfile, wgs)
    /\ UNCHANGED <<server, elsewhere, disk, args, runs, projout, scenario>>

\* the process is killed: nothing is closed, the pending lines are lost and
\* a file being retrieved stays as far as it was written
Kill ==
    /\ pc # "idle"
    /\ pc' = "idle"
    /\ exitcode' = -9
    /\ cause' = "killed"
    /\ NoProcess
    /\ disk' \in IF pc = "download" THEN {disk, Truncated(disk, filename)} ELSE {disk}
    /\ scenario' = "other"
    /\ UNCHANGED <<server, elsewhere, tmpfile, fstfile, args, runs, projout, rerun>>

Next ==
    \/ Startup
    \/ GetProjects
    \/ NextProject
    \/ ListAttempt
    \/ NextFile
    \/ DownloadAttempt
    \/ ParseFile
    \/ ProjectDone
    \/ Finish
    \/ Kill

Spec == Init /\ [][Next]_vars

-----------------------------------------------------------------------------
(* Properties of the pipeline *)

NormalOrResume == ~args.force /\ ~args.download

\* the identifiers in the ledger file
Ledger == {RStrip(tmpfile.lines[i]) : i \in 1..Len(tmpfile.lines)}

\* number of times the line l occurs in the lines s
Count(l, s) == Cardinality({i \in 1..Len(s) : s[i] = l})

\* the two files hold the same records, each as many times
SameRecords(a, b) == \A l \in Range(a) \cup Range(b) : Count(l, a) = Count(l, b)

\* what the parsing of the given files of project p writes
RECURSIVE FilesOutput(_, _, _)
FilesOutput(srv, p, files) ==
    IF files = <<>> THEN <<>>
    ELSE Normalize(p, srv.content[Head(files)]).out \o FilesOutput(srv, p, Tail(files))

\* what one run that nothing interrupts writes for the given projects
RECURSIVE RunOutput(_, _)
RunOutput(srv, projs) ==
    IF projs = <<>> THEN <<>>
    ELSE FilesOutput(srv, Head(projs), DataFiles(srv.listing[Head(projs)]))
         \o RunOutput(srv, Tail(projs))

\* C1: in normal and resume mode, during a run and after it ended in any way,
\* every line written for a project whose identifier is in the ledger file is
\* in the output file.
C1_LedgerImpliesOutput ==
    NormalOrResume =>
        \A p \in Ledger \cap DOMAIN projout :
            \A l \in Range(projout[p]) : l \in Range(fstfile.lines)

\* C2: whenever a project identifier is appended to the ledger in normal or
\* resume mode, the lines of every remote file of the project that ends in
\* .fsa_nt.gz have been written to the output.
C2_AllRemoteFilesWritten ==
    [][(NormalOrResume /\ Len(tmpfile'.lines) > Len(tmpfile.lines)) =>
          \A l \in Range(FilesOutput(server, proj, DataFiles(server.listing[proj]))) :
              l \in Range(projout[proj])]_vars

\* C3: when a run without force and download was aborted inside a project
\* after it wrote records of that project, and the later runs were resume
\* runs, the output file of the run that completes holds the records of one
\* uninterrupted run, each exactly as often.
C3_ResumeGivesSingleRunOutput ==
    (pc = "idle" /\ cause = "done" /\ scenario = "aborted") =>
        SameRecords(fstfile.lines, RunOutput(server, wgs_projects_raw(server.data)))

\* C4: a resume run started after a completed run changes the output file in
\* no step and never reaches the retrieval of a file.
C4_ResumeIdempotent ==
    [][rerun' => (fstfile' = fstfile /\ pc' # "download")]_vars

\* a resume run after a completed run found nothing to process
C4_Witness == rerun /\ pc = "idle" /\ cause = "nothing" /\ fstfile.lines # <<>>

\* C8: a run that stops while it parses a file (a header that does not match,
\* an empty or unreadable batch) ends with the status of a corrupt file and
\* has not put the project in the ledger.
C8_CorruptionOutcome ==
    [][(pc = "parse" /\ pc' = "idle" /\ cause' # "killed") =>
          (exitcode' = EXIT_EOF /\ proj \notin {RStrip(tmpfile'.lines[i]) : i \in 1..Len(tmpfile'.lines)})]_vars

\* one step taken inside a retry loop
RetryStep ==
    pc \in {"list", "download"} =>
        /\ retry \in 1..Len(RETRY_TIMES)
        /\ slept = SubSeq(RETRY_TIMES, 1, retry - 1)
        /\ pc' = pc => (retry' = retry + 1 /\ slept' = Append(slept, RETRY_TIMES[retry]))
        /\ cause' = "retries" => (retry = Len(RETRY_TIMES) /\ pc' = "idle")
        /\ (retry = Len(RETRY_TIMES) /\ pc' # "idle") => pc' \in {"file", "parse"}

\* C9: in a retry loop the attempts made so far were preceded by the first
\* sleeps of the schedule, in order; a failed attempt is followed by the next
\* entry of the schedule; the run ends with exhausted retries only at the 6th
\* attempt, and then the process is gone.
C9_RetrySchedule == [][RetryStep]_vars

\* the sixth attempt of a retrieval is due, after the five sleeps before it
C9_Witness == pc = "download" /\ retry = Len(RETRY_TIMES) /\ Len(slept) = Len(RETRY_TIMES) - 1

\* C10: a run that ends with exhausted retries has exit status 5, and no run
\* that ends at a damaged file (unexpected end of data, header mismatch) has
\* that status.
C10_RetriesDistinctFromCorruption ==
    /\ cause = "retries" => exitcode = 5
    /\ cause \in {"eof", "header"} => exitcode # 5

\* a run ended with exhausted retries
C10_Witness == pc = "idle" /\ cause = "retries" /\ exitcode = 5

-----------------------------------------------------------------------------
(* The normalizer on its own: a run that is about to parse the only file of *)
(* its only project, for every batch of at most MaxBatch lines              *)

NormInputs ==
    {[proj |-> AAAA01, file |-> A1_gz,
      pool |-> {OldHdrA1, OldHdrA2, NewHdrA, BadHdr, SeqACGT}],
     [proj |-> PROJ0001, file |-> P1_gz,
      pool |-> {SpecLine, OldHdrP, SeqGGCC}]}

Batches(pool) == UNION {[1..n -> pool] : n \in 0..MaxBatch}

InitNorm ==
    \E in \in NormInputs :
    \E batch \in Batches(in.pool) :
    \E state \in {"complete", "partial"} :
        /\ XferIdle /\ ConnIdle /\ LibIdle /\ BlastIdle
        /\ server = [data     |-> WGS_VDB \o in.proj \o <<"\n">>,
                     listing  |-> (in.proj :> <<in.file>>),
                     content  |-> (in.file :> batch)]
        /\ tmpfile = [exists |-> TRUE, lines |-> <<>>]
        /\ fstfile = [exists |-> TRUE, lines |-> <<>>]
        /\ disk = (in.file :> state)
        /\ pc = "parse"
        /\ args = [force |-> FALSE, resume |-> FALSE, download |-> FALSE, reverse |-> FALSE]
        /\ previous = <<>>
        /\ parsed = <<>>
        /\ wgs_projects = <<in.proj>>
        /\ pidx = 1
        /\ to_download = <<in.file>>
        /\ fidx = 1
        /\ retry = 1
        /\ ftp = "open"
        /\ wgs = <<>>
        /\ exitcode = -1
        /\ cause = "running"
        /\ runs = 1
        /\ slept = <<0>>
        /\ projout = (in.proj :> <<>>)
        /\ scenario = "fresh"
        /\ rerun = FALSE

NextNorm ==
    \/ ParseFile
    \/ NextFile
    \/ ProjectDone
    \/ NextProject
    \/ Finish

SpecNorm == InitNorm /\ [][NextNorm]_vars

\* the project and the batch of such a run
NormProj == wgs_projects_raw(server.data)[1]
NormBatch == server.content[server.listing[NormProj][1]]

\* the batch was read and parsed to its end
NormParsed == pc # "parse" /\ cause \notin {"eof", "header"}

\* one output line for each input line: the canonical header for a header
\* line, the line itself for a sequence line
OnePerLine(p, lines) ==
    [i \in 1..Len(lines) |->
        IF lines[i][1] = ">" THEN CanonicalHeader(re_search(p, lines[i])) ELSE lines[i]]

\* C5: for a batch in the old convention (its first line is a header that
\* does not hold the project identifier in its first 7 characters) the
\* normalizer writes one canonical header for each header line, in order,
\* and the sequence lines unchanged.
C5_OneHeaderPerRecord ==
    (/\ NormParsed
     /\ NormBatch # <<>>
     /\ NormBatch[1][1] = ">"
     /\ ~Contains(PySlice(NormBatch[1], 0, 7), NormProj))
    => projout[NormProj] = OnePerLine(NormProj, NormBatch)

\* C6 as the specification states it: for the batch that consists of the
\* line PROJ000012345.1|Some organism, complete genome and the project
\* PROJ0001 the normalizer writes >PROJ000012345.1 Some organism, complete genome.
C6_SpecExample ==
    (pc # "parse" /\ disk[server.listing[NormProj][1]] = "complete"
     /\ NormProj = PROJ0001 /\ NormBatch = <<SpecLine>>)
    => SpecLineOut \in Range(projout[NormProj])

\* C6: for the project PROJ0001, when a batch that holds the header line
\* >PROJ000112345.1|Some organism, complete genome was parsed to its end, the
\* output holds >PROJ000112345.1 Some organism, complete genome and not the
\* line as it was read.
C6_HeaderRewritten ==
    (NormParsed /\ NormProj = PROJ0001 /\ OldHdrP \in Range(NormBatch))
    => (OldHdrPOut \in Range(projout[NormProj]) /\ OldHdrP \notin Range(projout[NormProj]))

\* such a batch was parsed, the header not being its first line
C6_Witness ==
    /\ NormParsed
    /\ NormProj = PROJ0001
    /\ Len(NormBatch) > 1
    /\ NormBatch[2] = OldHdrP
    /\ OldHdrPOut \in Range(projout[NormProj])

\* C7: a batch whose first line holds the project identifier in its first 7
\* characters, once read, is written to the output line for line whatever
\* its other lines are, and the run does not stop at any of them.
C7_CanonicalPassthrough ==
    (/\ pc # "parse"
     /\ cause # "eof"
     /\ NormBatch # <<>>
     /\ Contains(PySlice(NormBatch[1], 0, 7), NormProj))
    => /\ cause # "header"
       /\ projout[NormProj] = NormBatch
       /\ fstfile.lines \o wgs = NormBatch

\* a batch in the new convention with a later header in the old convention
\* and one of another project went to the output file
C7_Witness ==
    /\ pc = "idle"
    /\ cause = "done"
    /\ NormBatch = <<NewHdrA, OldHdrA1, BadHdr>>
    /\ fstfile.lines = NormBatch

-----------------------------------------------------------------------------
(* Exit statuses of the fatal conditions *)

\* the fatal condition a run ended in, "none" when it ended in another way
Condition(why) ==
    CASE why \in {"no_fasta", "stale_ledger", "fasta_exists"} -> "state_conflict"
      [] why = "eof" -> "corrupt_file"
      [] why = "retries" -> "retries"
      [] why = "interrupt" -> "interrupt"
      [] why = "rm_failed" -> "cleanup"
      [] OTHER -> "none"

\* the statuses the calls of exit() give to each fatal condition
ExitStatuses ==
    [state_conflict |-> {EXIT_NO_FASTA, EXIT_STALE_LEDGER, EXIT_FASTA_EXISTS},
     corrupt_file   |-> {EXIT_EOF},
     retries        |-> {EXIT_RETRIES},
     interrupt      |-> {EXIT_INTERRUPT},
     cleanup        |-> {EXIT_RM_FAILED}]

\* C11: a run that ended in one of the five fatal conditions (state conflict,
\* corrupt file, exhausted retries, user interrupt, failed removal of the
\* ledger) has an exit status that the code gives to no other of the five.
C11_DistinctExitCodes ==
    \A c \in DOMAIN ExitStatuses :
        (pc = "idle" /\ Condition(cause) = c) =>
            /\ exitcode \in ExitStatuses[c]
            /\ \A d \in DOMAIN ExitStatuses \ {c} : exitcode \notin ExitStatuses[d]

-----------------------------------------------------------------------------
(* Failures and interruptions of the transport *)

\* C12: when a run ends because the retrieval of a file failed (the retries
\* are exhausted, or an error that is not retried was raised), no partial
\* copy of that file is left in the directory.
C12_NoPartialFileAfterFailure ==
    [][(pc = "download" /\ cause' \in {"retries", "ftp_error"}) =>
          disk'[filename] # "partial"]_vars

\* C13: a user interruption in a retry loop, during an attempt or during the
\* sleep before it, ends the run at once with the status of the user
\* interrupt, and in the retrieval loop no partial copy of the file is left.
C13_InterruptOutcome ==
    [][(pc \in {"list", "download"} /\ cause' \in {"interrupt", "sleep_interrupt"}) =>
          /\ pc' = "idle"
          /\ exitcode' = EXIT_INTERRUPT
          /\ pc = "download" => disk'[filename] # "partial"]_vars

-----------------------------------------------------------------------------
(* One run started in any state of the directory: the ledger and the output *)
(* file as earlier runs or the user can have left them                      *)

\* the ledger: missing, empty, or with a project
LedgerStates == {NoFile,
                 [exists |-> TRUE, lines |-> <<>>],
                 [exists |-> TRUE, lines |-> <<BBBB01 \o <<"\n">>>>]}

\* the output file: missing, empty, or with the records of that project
OutputStates == {NoFile,
                 [exists |-> TRUE, lines |-> <<>>],
                 [exists |-> TRUE, lines |-> <<NewHdrB, SeqTTAA>>]}

\* the downloads: none, or the file of that project
CacheStates == {[f \in AllFiles(MainServer) |-> "absent"],
                [f \in AllFiles(MainServer) |-> IF f = B1_gz THEN "complete" ELSE "absent"]}

InitStart ==
    /\ XferIdle /\ ConnIdle /\ LibIdle /\ BlastIdle
    /\ server = MainServer
    /\ tmpfile \in LedgerStates
    /\ fstfile \in OutputStates
    /\ disk \in CacheStates
    /\ pc = "idle"
    /\ args = [force |-> FALSE, resume |-> FALSE, download |-> FALSE, reverse |-> FALSE]
    /\ previous = <<>>
    /\ parsed = <<>>
    /\ wgs_projects = <<>>
    /\ pidx = 0
    /\ to_download = <<>>
    /\ fidx = 0
    /\ retry = 0
    /\ ftp = "None"
    /\ wgs = <<>>
    /\ exitcode = -1
    /\ cause = "none"
    /\ runs = MaxRuns - 1
    /\ slept = <<>>
    /\ projout = [p \in DOMAIN MainServer.listing |-> <<>>]
    /\ scenario = "other"
    /\ rerun = FALSE

SpecStart == InitStart /\ [][Next]_vars

\* C14: while a run is under way, from the checks of the local state on, a
\* ledger file that exists and is not empty has its output file; so a run
\* started with such a ledger and without the output file is rejected and
\* never gets to the lookup.
C14_LedgerOutputCoupling ==
    pc # "idle" => ((tmpfile.exists /\ tmpfile.lines # <<>>) => fstfile.exists)

\* the ways a run ends at the checks of the local state
Conflicts == {"no_fasta", "stale_ledger", "fasta_exists"}

ConflictStep ==
    cause' \in Conflicts =>
        /\ pc = "idle" /\ pc' = "idle"
        /\ UNCHANGED <<tmpfile, fstfile, disk>>
        /\ exitcode' \in ExitStatuses.state_conflict
        /\ cause' = "stale_ledger" =>
              (tmpfile.exists /\ ~args'.resume /\ ~args'.force /\ ~args'.download)
        /\ cause' = "no_fasta" =>
              (tmpfile.exists /\ tmpfile.lines # <<>> /\ ~fstfile.exists /\ args'.resume)
        /\ cause' = "fasta_exists" =>
              (~tmpfile.exists /\ fstfile.exists /\ ~args'.force)

\* C15: a run that ends at a conflict of the local state (a ledger without
\* resume, force or download; a ledger with projects and no output file in
\* resume mode; an output file without ledger and without force) ends in
\* the step it starts in, before the lookup and any FTP access, and leaves the
\* ledger, the output file and the downloads as they were.
C15_ConflictBeforeNetwork == [][ConflictStep]_vars

\* a resume run was refused for a ledger with a project and no output file,
\* the download of that project being in the directory
C15_Witness ==
    /\ pc = "idle"
    /\ cause = "no_fasta"
    /\ exitcode = EXIT_NO_FASTA
    /\ tmpfile.lines # <<>>
    /\ disk[B1_gz] = "complete"

-----------------------------------------------------------------------------
(* The modes and the local state *)

\* C16: the start of a run with force removes the ledger file and the output
\* file, whichever of them exist, and no download.
C16_ForceClearsBoth ==
    [][(pc = "idle" /\ runs' # runs /\ args'.force) =>
          (~tmpfile'.exists /\ ~fstfile'.exists /\ disk' = disk)]_vars

\* C17: no step of a run with download, whatever its other flags, changes the
\* ledger file or the output file.
C17_DownloadLeavesState ==
    [][args'.download => (tmpfile' = tmpfile /\ fstfile' = fstfile)]_vars

\* C18: after a run without download that ended with exit status 0 there is
\* no ledger file.
C18_LedgerGoneAfterSuccess ==
    (pc = "idle" /\ exitcode = EXIT_OK /\ ~args.download) => ~tmpfile.exists

-----------------------------------------------------------------------------
(* The project list *)

\* no identifier of the response is missing in the ledger
NoWork == \A p \in Range(wgs_projects_raw(server.data)) : p = <<>> \/ p \in Range(parsed)

LookupStep ==
    (pc = "lookup" /\ cause' # "killed") =>
        IF NoWork
        THEN /\ pc' = "idle"
             /\ exitcode' = EXIT_OK
             /\ UNCHANGED <<tmpfile, fstfile>>
        ELSE \A i \in 1..Len(wgs_projects') :
                /\ wgs_projects'[i] # <<>>
                /\ wgs_projects'[i] \in Range(wgs_projects_raw(server.data))

\* C19: when the response of the lookup holds no identifier that is missing
\* in the ledger, an empty response included, the run ends after the lookup
\* with exit status 0, without FTP access and with the ledger and the output
\* file as they were; otherwise every project to process is a non-empty
\* identifier of the response.
C19_NoWorkNoAccess == [][LookupStep]_vars

-----------------------------------------------------------------------------
(* The order of the processing *)

\* position of the file f in the listing l
Position(f, l) == CHOOSE k \in 1..Len(l) : l[k] = f

\* the files are files of the listing, in its order
InListingOrder(files, l) ==
    /\ \A i \in 1..Len(files) : files[i] \in Range(l)
    /\ \A i, j \in 1..Len(files) : i < j => Position(files[i], l) < Position(files[j], l)

\* C20: during a run the projects to process are in ascending order of their
\* identifiers, in descending order with reverse; the files of the project
\* being processed are in the order of the remote listing; and the ledger
\* holds, after the identifiers it had at the start, the projects processed
\* so far in the order of the processing.
C20_ProcessingOrder ==
    pc \notin {"idle", "lookup"} =>
        /\ \A i, j \in 1..Len(wgs_projects) :
              i < j => IF args.reverse THEN StrLess(wgs_projects[j], wgs_projects[i])
                       ELSE StrLess(wgs_projects[i], wgs_projects[j])
        /\ pc \in {"file", "download", "parse", "projdone"} =>
              InListingOrder(to_download, server.listing[proj])
        /\ ~args.download =>
              ReadLedger(tmpfile) = parsed \o SubSeq(wgs_projects, 1, pidx - 1)

-----------------------------------------------------------------------------
(* download_file: the transfer of a file and the keep-alive commands *)

\* number of files retrieved one after the other on the connection
NFiles == 3

\* periods of 30 seconds that a transfer can last
MaxPeriods == 2

\* the target is the function itself: Thread(target=bkg_download)
TargetExpr_Reference == "reference"

\* threading.Thread(target=bkg_download()): the target is the value of a call
TargetExpr == "call"

\* the thread that executes the body of bkg_download; the thread whose
\* target is the function executes it in Thread.run
BodyRuns ==
    \/ TargetExpr = "call" /\ mpc = "target"
    \/ TargetExpr = "reference" /\ thrd = "alive"

\* sckt.recv() is being called: the data transfer is in progress
TransferRunning == bpc = "transfer"

\* the files are retrieved with an open connection, one call after the other
InitKeepAlive ==
    /\ EmptyDirectory(EmptyServer) /\ ConnIdle /\ LibIdle /\ BlastIdle
    /\ dl_file = 1
    /\ mpc = "target"
    /\ bpc = "not_called"
    /\ thrd = "none"
    /\ periods = 0
    /\ noops = 0

\* one statement of bkg_download
bkg_download ==
    /\ BodyRuns
    /\ bpc' = CASE bpc = "not_called"  -> "file_open"    \* open(filename, 'wb')
                [] bpc = "file_open"   -> "type_sent"    \* ftp.voidcmd('TYPE I'), sent
                [] bpc = "type_sent"   -> "type_ok"      \* its reply was read
                [] bpc = "type_ok"     -> "retr_sent"    \* ftp.transfercmd('RETR ...'), sent
                [] bpc = "retr_sent"   -> "transfer"     \* its reply was read
                [] bpc = "eof"         -> "sckt_closed"  \* sckt.close()
                [] bpc = "sckt_closed" -> "done"         \* the file is closed
                [] OTHER               -> bpc
    /\ bpc \notin {"transfer", "done"}
    /\ UNCHANGED <<dl_file, mpc, thrd, periods, noops>>
    /\ UNCHANGED <<wgsVars, connVars, libVars, blastVars>>

\* chunk = sckt.recv(2**25): a chunk, or the end of the data
Recv ==
    /\ BodyRuns
    /\ bpc = "transfer"
    /\ bpc' \in {"transfer", "eof"}
    /\ UNCHANGED <<dl_file, mpc, thrd, periods, noops>>
    /\ UNCHANGED <<wgsVars, connVars, libVars, blastVars>>

\* 30 seconds go by while the data is transferred
Tick ==
    /\ TransferRunning
    /\ periods < MaxPeriods
    /\ periods' = periods + 1
    /\ UNCHANGED <<dl_file, mpc, bpc, thrd, noops>>
    /\ UNCHANGED <<wgsVars, connVars, libVars, blastVars>>

\* thrd = threading.Thread(target=...): the argument is evaluated first
NewThread ==
    /\ mpc = "target"
    /\ TargetExpr = "call" => bpc = "done"
    /\ mpc' = "start"
    /\ thrd' = "new"
    /\ UNCHANGED <<dl_file, bpc, periods, noops>>
    /\ UNCHANGED <<wgsVars, connVars, libVars, blastVars>>

\* thrd.start()
ThreadStart ==
    /\ mpc = "start"
    /\ mpc' = "is_alive"
    /\ thrd' = "alive"
    /\ UNCHANGED <<dl_file, bpc, periods, noops>>
    /\ UNCHANGED <<wgsVars, connVars, libVars, blastVars>>

\* Thread.run is over: at once without target, else when the target returned
ThreadEnd ==
    /\ thrd = "alive"
    /\ TargetExpr = "reference" => bpc = "done"
    /\ thrd' = "dead"
    /\ UNCHANGED <<dl_file, mpc, bpc, periods, noops>>
    /\ UNCHANGED <<wgsVars, connVars, libVars, blastVars>>

\* while thrd.is_alive()
IsAlive ==
    /\ mpc = "is_alive"
    /\ mpc' = IF thrd = "alive" THEN "join" ELSE "return"
    /\ UNCHANGED <<dl_file, bpc, thrd, periods, noops>>
    /\ UNCHANGED <<wgsVars, connVars, libVars, blastVars>>

\* thrd.join(30): the thread ended, or 30 seconds are over
Join ==
    /\ mpc = "join"
    /\ mpc' = "noop"
    /\ UNCHANGED <<dl_file, bpc, thrd, periods, noops>>
    /\ UNCHANGED <<wgsVars, connVars, libVars, blastVars>>

\* ftp.voidcmd('NOOP'): the command is sent, then its reply is read
Noop ==
    /\ mpc \in {"noop", "noop_sent"}
    /\ mpc' = IF mpc = "noop" THEN "noop_sent" ELSE "is_alive"
    /\ noops' = IF mpc = "noop" /\ TransferRunning THEN noops + 1 ELSE noops
    /\ UNCHANGED <<dl_file, bpc, thrd, periods>>
    /\ UNCHANGED <<wgsVars, connVars, libVars, blastVars>>

\* download_file returns; the loop of main calls it for the next file
Return ==
    /\ mpc = "return"
    /\ IF dl_file < NFiles
       THEN /\ dl_file' = dl_file + 1
            /\ mpc' = "target"
            /\ bpc' = "not_called"
            /\ thrd' = "none"
            /\ periods' = 0
            /\ noops' = 0
       ELSE /\ mpc' = "done"
            /\ UNCHANGED <<dl_file, bpc, thrd, periods, noops>>
    /\ UNCHANGED <<wgsVars, connVars, libVars, blastVars>>

NextKeepAlive ==
    \/ bkg_download
    \/ Recv
    \/ Tick
    \/ NewThread
    \/ ThreadStart
    \/ ThreadEnd
    \/ IsAlive
    \/ Join
    \/ Noop
    \/ Return

SpecKeepAlive == InitKeepAlive /\ [][NextKeepAlive]_vars

\* C21: a NOOP command is sent for every 30 seconds that the transfer of a
\* file lasts (the one of the last period may still be due when the
\* transfer ends).
C21_NoopDuringTransfer ==
    bpc \in {"eof", "sckt_closed", "done"} => noops + 1 >= periods

\* C22: no NOOP command is in flight on the control channel while TYPE I or
\* RETR of the transfer is in flight, and download_file returns, so that the
\* next file is started, only after the transfer ended and the local file
\* was closed: one transfer at a time.
C22_NoRaceOneTransfer ==
    /\ ~(mpc = "noop_sent" /\ bpc \in {"type_sent", "retr_sent"})
    /\ mpc \in {"return", "done"} => bpc = "done"

\* a NOOP is in flight after the transfer of the last file
C22_Witness == dl_file = NFiles /\ mpc = "noop_sent" /\ bpc = "done"

-----------------------------------------------------------------------------
(* the FTP connections of a run *)

\* number of WGS projects of the run
NProjects == 2

\* the run lists its first project; no connection was opened yet
InitConn ==
    /\ EmptyDirectory(EmptyServer) /\ XferIdle /\ LibIdle /\ BlastIdle
    /\ cpc = "list"
    /\ cretry = 1
    /\ cftp = "None"
    /\ conns = 0
    /\ cproj = 1

\* the entry of RETRY_TIMES of the attempt
cretry_time == RETRY_TIMES[cretry]

\* except EXCEPTS: the next entry of RETRY_TIMES, or the else clause of the
\* for loop with exit(5)
Problem(loop) == IF Exhausted(cretry) THEN <<"exit5", cretry>> ELSE <<loop, cretry + 1>>

\* FTP(FTP_SERVER, timeout=30): the constructor connects to the server; the
\* download loop calls it in its retries only ('if retry_time')
Connect ==
    /\ cpc \in {"list", "download"}
    /\ \E outcome \in {"ok", "problem", "interrupt"} :
         CASE cpc = "download" /\ cretry_time = 0 ->
                /\ cpc' = "download_session"
                /\ UNCHANGED <<cretry, conns>>
           [] OTHER ->
                IF outcome = "ok"
                THEN /\ cpc' = IF cpc = "list" THEN "list_new" ELSE "download_new"
                     /\ conns' = conns + 1
                     /\ UNCHANGED cretry
                ELSE IF outcome = "problem"
                THEN /\ cpc' = Problem(cpc)[1]
                     /\ cretry' = Problem(cpc)[2]
                     /\ UNCHANGED conns
                ELSE /\ cpc' = "exit9"
                     /\ UNCHANGED <<cretry, conns>>
    /\ UNCHANGED <<cftp, cproj>>
    /\ UNCHANGED <<wgsVars, xferVars, libVars, blastVars>>

\* ftp = <the new object>: the object that was bound to ftp is not closed;
\* its connection ends when the object is collected, which the exception
\* kept in 'error' (with the frames of its traceback) can prevent
Bind ==
    /\ cpc \in {"list_new", "download_new"}
    /\ cpc' = IF cpc = "list_new" THEN "list_session" ELSE "download_session"
    /\ cftp' = "open"
    /\ conns' \in IF cftp = "open" THEN {conns - 1, conns} ELSE {conns}
    /\ UNCHANGED <<cretry, cproj>>
    /\ UNCHANGED <<wgsVars, xferVars, libVars, blastVars>>

\* login, cwd and nlst of the listing; (login, cwd and) download_file of
\* the download
Session ==
    /\ cpc \in {"list_session", "download_session"}
    /\ \E outcome \in {"ok", "problem", "interrupt"} :
         IF outcome = "ok"
         THEN /\ cpc' = IF cpc = "list_session" THEN "download" ELSE "project_end"
              /\ cretry' = 1
         ELSE IF outcome = "problem"
         THEN /\ cpc' = Problem(IF cpc = "list_session" THEN "list" ELSE "download")[1]
              /\ cretry' = Problem(cpc)[2]
         ELSE /\ cpc' = "exit9"
              /\ UNCHANGED cretry
    /\ UNCHANGED <<cftp, conns, cproj>>
    /\ UNCHANGED <<wgsVars, xferVars, libVars, blastVars>>

\* if ftp: ftp.quit(), and ftp.close() if that fails; then the next project
ProjectEnd ==
    /\ cpc = "project_end"
    /\ cftp' = IF cftp = "None" THEN "None" ELSE "closed"
    /\ conns' = IF cftp = "open" THEN conns - 1 ELSE conns
    /\ IF cproj < NProjects
       THEN cproj' = cproj + 1 /\ cpc' = "list"
       ELSE cproj' = cproj /\ cpc' = "done"
    /\ cretry' = 1
    /\ UNCHANGED <<wgsVars, xferVars, libVars, blastVars>>

NextConn ==
    \/ Connect
    \/ Bind
    \/ Session
    \/ ProjectEnd

SpecConn == InitConn /\ [][NextConn]_vars

\* C23: at most one FTP connection of the run is open at any time, and none
\* is open when a retry is about to connect, when the run moves on to the
\* next project, and when the run exits (interrupted, out of retries, done).
C23_OneConnection ==
    /\ conns <= 1
    /\ cpc \in {"list", "download"} /\ cretry_time # 0 => conns = 0
    /\ cpc = "list" => conns = 0
    /\ cpc \in {"exit9", "exit5", "done"} => conns = 0

-----------------------------------------------------------------------------
(* entrez.py: xml_node_to_dict *)

\* python values: a string, a list, a dict with its items in insertion order
Str(s) == [kind |-> "str", val |-> s]
List(items) == [kind |-> "list", val |-> items]
Dict(items) == [kind |-> "dict", val |-> items]

\* the keys of a dict, in insertion order
Keys(d) == [i \in 1..Len(d.val) |-> d.val[i][1]]

\* d[k], for a key of d
Get(d, k) == d.val[CHOOSE i \in 1..Len(d.val) : d.val[i][1] = k][2]

\* d[k] = v: the value of a key of d is replaced in place, a new key is
\* added at the end
DictSet(d, k, v) ==
    IF \E i \in 1..Len(d.val) : d.val[i][1] = k
    THEN Dict([i \in 1..Len(d.val) |-> IF d.val[i][1] = k THEN <<k, v>> ELSE d.val[i]])
    ELSE Dict(Append(d.val, <<k, v>>))

\* d.update(e)
RECURSIVE DictUpdate(_, _)
DictUpdate(d, e) ==
    IF e.val = <<>> THEN d
    ELSE DictUpdate(DictSet(d, e.val[1][1], e.val[1][2]), Dict(Tail(e.val)))

\* an element of an ElementTree: children are elements, text is <<>> for None
Element(tag, attrib, text, children) ==
    [tag |-> tag, attrib |-> attrib, text |-> text, children |-> children]

\* node.text or ''
TextOrEmpty(node) == IF node.text = <<>> THEN "" ELSE node.text[1]

\* the tags of the documents, in the order of < on python strings
Tags == <<"a", "a-group", "b", "r">>

\* the place of a tag in the order of the strings
TagRank(t) == CHOOSE i \in 1..Len(Tags) : Tags[i] = t

\* a sort that puts the later of two nodes with the same tag first
Precedes_Strict(m, n) == TagRank(m.tag) < TagRank(n.tag)

\* sorted() is stable: m, which is before n in the input, stays before n
\* unless the tag of n is smaller
Precedes(m, n) == TagRank(m.tag) <= TagRank(n.tag)

\* sorted(nodes, key=lambda n: n.tag)
RECURSIVE SortedByTag(_)
RECURSIVE InsertNode(_, _)
InsertNode(nodes, n) ==
    IF nodes = <<>> THEN <<n>>
    ELSE IF Precedes(nodes[Len(nodes)], n) THEN Append(nodes, n)
    ELSE Append(InsertNode(SubSeq(nodes, 1, Len(nodes) - 1), n), nodes[Len(nodes)])

SortedByTag(nodes) ==
    IF nodes = <<>> THEN <<>>
    ELSE InsertNode(SortedByTag(SubSeq(nodes, 1, Len(nodes) - 1)), nodes[Len(nodes)])

\* groupby(nodes, lambda n: n.tag): the runs of nodes with the same tag
RECURSIVE groupby(_)
groupby(nodes) ==
    IF nodes = <<>> THEN <<>>
    ELSE LET rest == groupby(Tail(nodes))
         IN IF rest # <<>> /\ rest[1][1].tag = nodes[1].tag
            THEN <<(<<nodes[1]>> \o rest[1])>> \o Tail(rest)
            ELSE <<(<<nodes[1]>>)>> \o rest

\* {'@'+k: v for k, v in node.attrib.items()}
Attributes(node) ==
    Dict([i \in 1..Len(node.attrib) |-> <<"@" \o node.attrib[i][1], Str(node.attrib[i][2])>>])

\* the number of different tags in the children
ntags(node) == Cardinality({node.children[i].tag : i \in 1..Len(node.children)})

RECURSIVE xml_node_to_dict(_)
RECURSIVE UpdateAll(_, _)
RECURSIVE UpdateGroups(_, _)

\* [xml_node_to_dict(n) for n in nodes]
ConvertAll(nodes) == List([i \in 1..Len(nodes) |-> xml_node_to_dict(nodes[i])])

\* for n in node: subdict.update(xml_node_to_dict(n))
UpdateAll(subdict, nodes) ==
    IF nodes = <<>> THEN subdict
    ELSE UpdateAll(DictUpdate(subdict, xml_node_to_dict(nodes[1])), Tail(nodes))

\* the loop over the groups of the sorted children
UpdateGroups(subdict, groups) ==
    IF groups = <<>> THEN subdict
    ELSE LET nodes_tag == groups[1]
             gtag == nodes_tag[1].tag
         IN UpdateGroups(IF Len(nodes_tag) = 1
                         THEN DictUpdate(subdict, xml_node_to_dict(nodes_tag[1]))
                         ELSE DictSet(subdict, gtag \o "-group", ConvertAll(nodes_tag)),
                         Tail(groups))

xml_node_to_dict(node) ==
    LET subdict == Attributes(node)
        tag == node.tag
        ntag == Len(node.children)
    IN IF ntag = 0
       THEN IF Len(subdict.val) = 0
            THEN Dict(<< <<tag, Str(TextOrEmpty(node))>> >>)
            ELSE Dict(<< <<tag, DictSet(subdict, "text", Str(TextOrEmpty(node)))>> >>)
       ELSE IF ntag = ntags(node)
       THEN Dict(<< <<tag, UpdateAll(subdict, node.children)>> >>)
       ELSE IF ntags(node) = 1
       THEN IF Len(subdict.val) = 0
            THEN Dict(<< <<tag, ConvertAll(node.children)>> >>)
            ELSE Dict(<< <<tag, DictSet(subdict, "children", ConvertAll(node.children))>> >>)
       ELSE Dict(<< <<tag, UpdateGroups(subdict, groupby(SortedByTag(node.children)))>> >>)

\* largest number of children of the root of a document
MaxChildren == 3

\* the elements that the documents are made of
Leaves ==
    { Element("a", <<>>, <<"1">>, <<>>),
      Element("a", <<>>, <<"2">>, <<>>),
      Element("a", << <<"k", "v">> >>, <<>>, <<>>),
      Element("b", <<>>, <<"1">>, <<>>),
      Element("a-group", <<>>, <<"9">>, <<>>),
      Element("b", <<>>, <<>>, << Element("a", <<>>, <<"1">>, <<>>),
                                  Element("a", <<>>, <<"2">>, <<>>) >>) }

Documents ==
    { Element("r", attrib, <<>>, children) :
        attrib \in {<<>>, << <<"k", "v">> >>},
        children \in UNION {[1..n -> Leaves] : n \in 0..MaxChildren} }

InitXml ==
    /\ EmptyDirectory(EmptyServer) /\ XferIdle /\ ConnIdle /\ BlastIdle
    /\ call \in Documents
    /\ result = <<>>
    /\ returned = FALSE

\* result = xml_node_to_dict(node)
ConvertXml ==
    /\ ~returned
    /\ result' = xml_node_to_dict(call)
    /\ returned' = TRUE
    /\ UNCHANGED call
    /\ UNCHANGED <<wgsVars, xferVars, connVars, blastVars>>

NextXml == ConvertXml

SpecXml == InitXml /\ [][NextXml]_vars

\* the children of the node with the tag, in document order
ChildrenWith(node, t) == Filter(node.children, {n \in Range(node.children) : n.tag = t})

\* one one-key dict {tag: content} for each child with the tag, in document
\* order
Collected(node, t) ==
    LET nodes == ChildrenWith(node, t)
    IN List([i \in 1..Len(nodes) |-> xml_node_to_dict(nodes[i])])

\* the tags of several children of the node
Repeated(node) == {t \in Range(Tags) : Len(ChildrenWith(node, t)) > 1}

-----------------------------------------------------------------------------
(* entrez.py: Nest.__eq__ *)

\* type(x) in [dict, list]: wrap(x) is a Nest
IsNest(x) == x.kind \in {"list", "dict"}

\* what iterating over Nest(x) yields: the items of a list, the tuples
\* (key, value) of a dict in the order of insertion
Iter(x) == x.val

RECURSIVE NestEq(_, _)

\* x == y for two items of lists, or two values of dict items, after wrap():
\* a Nest is equal to a Nest only, by Nest.__eq__; strings compare as strings
WrapEq(a, b) ==
    IF IsNest(a) /\ IsNest(b) THEN NestEq(a, b)
    ELSE IF IsNest(a) \/ IsNest(b) THEN FALSE
    ELSE a = b

\* x == y for the elements that zip() pairs up: a tuple (key, value) is
\* equal to a tuple with the same key and an equal value, and to nothing
\* else that the data holds
ZipEq(x, y, i) ==
    IF x.kind = "dict" /\ y.kind = "dict"
    THEN Iter(x)[i][1] = Iter(y)[i][1] /\ WrapEq(Iter(x)[i][2], Iter(y)[i][2])
    ELSE IF x.kind = "list" /\ y.kind = "list"
    THEN WrapEq(Iter(x)[i], Iter(y)[i])
    ELSE FALSE

\* Nest(x) == y, for y a dict, a list or the Nest of one
NestEq(x, y) ==
    /\ Len(x.val) = Len(y.val)
    /\ \A i \in 1..Len(x.val) : ZipEq(x, y, i)

\* x == y for the plain python objects
RECURSIVE PyEq(_, _)
PyEq(x, y) ==
    /\ x.kind = y.kind
    /\ CASE x.kind = "list" ->
              /\ Len(x.val) = Len(y.val)
              /\ \A i \in 1..Len(x.val) : PyEq(x.val[i], y.val[i])
         [] x.kind = "dict" ->
              /\ Range(Keys(x)) = Range(Keys(y))
              /\ \A k \in Range(Keys(x)) : PyEq(Get(x, k), Get(y, k))
         [] OTHER -> x = y

\* largest number of items of the inner lists and dicts
MaxItems == 2

Strings == {Str("1"), Str("2")}

\* the lists of up to n of the values
ListsOf(values, n) == {List(l) : l \in UNION {[1..m -> values] : m \in 0..n}}

\* the dicts with up to n of the keys a, b, in every order of insertion
DictsOf(values, n) ==
    {Dict(d) : d \in {d \in UNION {[1..m -> {"a", "b"} \X values] : m \in 0..n} :
                        \A i, j \in DOMAIN d : i # j => d[i][1] # d[j][1]}}

Flat == ListsOf(Strings, MaxItems) \cup DictsOf(Strings, MaxItems)

\* lists and dicts of strings, and a list or dict around one of them
Objects == Flat \cup ListsOf(Flat, 1) \cup DictsOf(Flat, 1)

InitEq ==
    /\ EmptyDirectory(EmptyServer) /\ XferIdle /\ ConnIdle /\ BlastIdle
    /\ call \in Objects \X Objects
    /\ result = <<>>
    /\ returned = FALSE

\* result = (Nest(x) == y)
Compare ==
    /\ ~returned
    /\ result' = NestEq(call[1], call[2])
    /\ returned' = TRUE
    /\ UNCHANGED call
    /\ UNCHANGED <<wgsVars, xferVars, connVars, blastVars>>

NextEq == Compare

SpecEq == InitEq /\ [][NextEq]_vars

\* C25: Nest(x) == y is true exactly when x and the plain object of y are
\* equal as python values: lists with the same elements in the same order,
\* dicts with the same keys and equal values in whatever order of insertion.
C25_EqualsPlainEquality == returned => (result <=> PyEq(call[1], call[2]))

-----------------------------------------------------------------------------
(* entrez.py: the argument checks of query *)

\* the literals: {'a', 'b'} is a set, {} is an empty dict
SetOf(elems) == [type |-> "set", elems |-> elems]
EmptyDict == [type |-> "dict", elems |-> {}]

_tools == {"info", "search", "post", "summary", "fetch", "link", "gquery", "spell", "citmatch"}

\* 'rettype' 'bdata', without a comma, is one string
_required == [tool \in _tools |->
    CASE tool = "info"     -> EmptyDict
      [] tool = "search"   -> SetOf({"db", "term"})
      [] tool = "post"     -> SetOf({"db", "id"})
      [] tool = "summary"  -> SetOf({"db"})
      [] tool = "fetch"    -> SetOf({"db"})
      [] tool = "link"     -> SetOf({"db", "dbfrom"})
      [] tool = "gquery"   -> SetOf({"term"})
      [] tool = "spell"    -> SetOf({"db", "term"})
      [] tool = "citmatch" -> SetOf({"db", "rettype" \o "bdata"})]

_optional == [tool \in _tools |->
    CASE tool = "info"     -> SetOf({"db", "version", "retmode"})
      [] tool = "search"   -> SetOf({"usehistory", "WebEnv", "query_key", "retstart", "retmax",
                                     "rettype", "retmode", "sort", "field", "idtype",
                                     "datetype", "reldate", "mindate", "maxdate"})
      [] tool = "post"     -> SetOf({"WebEnv"})
      [] tool = "summary"  -> SetOf({"id", "query_key", "WebEnv", "retstart", "retmax",
                                     "rettype", "retmode", "version"})
      [] tool = "fetch"    -> SetOf({"id", "query_key", "WebEnv", "retstart", "retmax",
                                     "rettype", "retmode", "strand", "seq_start", "seq_stop",
                                     "complexity"})
      [] tool = "link"     -> SetOf({"id", "query_key", "WebEnv", "retmode", "idtype",
                                     "linkname", "cmd", "term", "holding", "datetype",
                                     "reldate", "mindate", "maxdate"})
      [] tool = "gquery"   -> EmptyDict
      [] tool = "spell"    -> EmptyDict
      [] tool = "citmatch" -> EmptyDict]

\* a | b: the union of two sets, the merge of two dicts; a set and a dict
\* have no |
Or(a, b) ==
    IF a.type = b.type /\ a.type # "TypeError"
    THEN [type |-> a.type, elems |-> a.elems \cup b.elems]
    ELSE [type |-> "TypeError", elems |-> {}]

\* _required[tool] | _optional[tool] | {'api_key', 'email'}
Accepted(tool) == Or(Or(_required[tool], _optional[tool]), SetOf({"api_key", "email"}))

\* the checks of query and the request that follows them
query(tool, params) ==
    IF tool \notin _tools THEN "AssertionError"
    ELSE IF \E p \in _required[tool].elems : p \notin params THEN "AssertionError"
    ELSE IF params = {} THEN "POST"
    ELSE IF Accepted(tool).type = "TypeError" THEN "TypeError"
    ELSE IF \E p \in params : p \notin Accepted(tool).elems THEN "AssertionError"
    ELSE "POST"

\* largest number of keyword arguments of a call
MaxParams == 3

\* the names of the keyword arguments of the calls
ParamNames == {"db", "term", "id", "dbfrom", "rettype", "bdata", "rettypebdata", "retmode",
               "email", "zzz"}

InitQuery ==
    /\ EmptyDirectory(EmptyServer) /\ XferIdle /\ ConnIdle /\ BlastIdle
    /\ call \in (_tools \cup {"bogus"}) \X {ps \in SUBSET ParamNames : Cardinality(ps) <= MaxParams}
    /\ result = <<>>
    /\ returned = FALSE

\* next(query(tool, **params))
Query ==
    /\ ~returned
    /\ result' = query(call[1], call[2])
    /\ returned' = TRUE
    /\ UNCHANGED call
    /\ UNCHANGED <<wgsVars, xferVars, connVars, blastVars>>

NextQuery == Query

SpecQuery == InitQuery /\ [][NextQuery]_vars

\* a valid tool, all its required arguments, and no other argument than its
\* required and optional ones, email and api_key
ValidCall(tool, params) ==
    /\ tool \in _tools
    /\ _required[tool].elems \subseteq params
    /\ params \subseteq _required[tool].elems \cup _optional[tool].elems \cup {"api_key", "email"}

\* C26: a valid call passes the checks and sends one POST request; any other
\* call fails with an AssertionError and sends nothing.
C26_ArgumentChecks ==
    returned => result = IF ValidCall(call[1], call[2]) THEN "POST" ELSE "AssertionError"

-----------------------------------------------------------------------------
(* entrez.py: select and apply *)

\* largest number of elements of a selection
MaxCount == 5

\* largest size of the batches
MaxRetmax == 3

\* the tools that select elements on the history server
Selectors == {"search", "post", "link"}

\* the values that select finds in the response: WebEnv and QueryKey in
\* every one, <Count> in the response of esearch only
Response(tool, n) ==
    IF tool = "search"
    THEN [WebEnv |-> "webenv", QueryKey |-> "1", Count |-> n]
    ELSE [WebEnv |-> "webenv", QueryKey |-> "1"]

\* int(selections.get('Count', '1'))
CountOf(selections) == IF "Count" \in DOMAIN selections THEN selections.Count ELSE 1

\* select(tool, db, ...) for n elements, then apply(tool, db, selections,
\* retmax): a search can select nothing, a post or a link selects something
InitApply ==
    /\ EmptyDirectory(EmptyServer) /\ XferIdle /\ ConnIdle /\ BlastIdle
    /\ call \in {c \in [tool : Selectors, n : 0..MaxCount, retmax : 1..MaxRetmax] :
                   c.n = 0 => c.tool = "search"}
    /\ result = [selections |-> <<>>, queries |-> <<>>]
    /\ returned = FALSE

\* selections = select(tool, db, ...)
select ==
    /\ ~returned
    /\ DOMAIN result.selections = {}
    /\ result' = [result EXCEPT !.selections = Response(call.tool, call.n)]
    /\ UNCHANGED <<call, returned>>
    /\ UNCHANGED <<wgsVars, xferVars, connVars, blastVars>>

\* for retstart in range(0, int(selections.get('Count', '1')), retmax):
\* one query, or the end of the loop
apply ==
    /\ ~returned
    /\ DOMAIN result.selections # {}
    /\ LET retstart == Len(result.queries) * call.retmax
       IN IF retstart < CountOf(result.selections)
          THEN /\ result' = [result EXCEPT !.queries =
                               Append(@, [retstart |-> retstart, retmax |-> call.retmax])]
               /\ UNCHANGED returned
          ELSE /\ returned' = TRUE
               /\ UNCHANGED result
    /\ UNCHANGED call
    /\ UNCHANGED <<wgsVars, xferVars, connVars, blastVars>>

NextApply ==
    \/ select
    \/ apply

SpecApply == InitApply /\ [][NextApply]_vars

\* the queries whose window [retstart, retstart + retmax) holds the position
Covering(pos) ==
    {i \in DOMAIN result.queries :
       /\ result.queries[i].retstart <= pos
       /\ pos < result.queries[i].retstart + result.queries[i].retmax}

\* C27: whichever tool selected the n elements, the queries of apply have
\* retstart 0, retmax, 2*retmax, ..., every position 0 .. n-1 is in the
\* window of exactly one query, and there is no query for n = 0.
C27_ApplyCoversSelection ==
    returned =>
      /\ \A i \in DOMAIN result.queries : result.queries[i].retstart = (i - 1) * call.retmax
      /\ \A pos \in 0..(call.n - 1) : Cardinality(Covering(pos)) = 1
      /\ call.n = 0 => result.queries = <<>>

-----------------------------------------------------------------------------
(* entrez.py: Nest.__getitem__ *)

\* the value that a call returns, or the exception that it raises
Ok(v) == [exc |-> "none", value |-> v]
Raise(e) == [exc |-> e, value |-> Str(<<>>)]

\* the characters of s up to its first whitespace
RECURSIVE Word(_)
Word(s) == IF s = <<>> \/ Head(s) \in Whitespace THEN <<>> ELSE <<Head(s)>> \o Word(Tail(s))

\* key.split(None, 1): nothing, the only word of the key, or its first word
\* and what follows the whitespace after it
SplitOnce(key) ==
    LET s == LStrip(key)
        head == Word(s)
        rest == LStrip(SubSeq(s, Len(head) + 1, Len(s)))
    IN IF s = <<>> THEN <<>>
       ELSE IF rest = <<>> THEN <<head>>
       ELSE <<head, rest>>

\* int(head) raises ValueError unless head is a number
IsInt(head) == head # <<>> /\ \A i \in 1..Len(head) : head[i] \in Digit

\* int(head), for a string of digits
RECURSIVE IntOf(_)
IntOf(head) ==
    IF head = <<>> THEN 0
    ELSE 10 * IntOf(SubSeq(head, 1, Len(head) - 1)) + (Ord(head[Len(head)]) - Ord("0"))

\* Nest(obj)[key] for a key of type str
RECURSIVE GetItem(_, _)
GetItem(obj, key) ==
    LET parts == SplitOnce(key)
    IN IF obj.kind = "list"
       THEN IF parts = <<>> THEN Raise("KeyError")
            ELSE IF ~IsInt(parts[1]) THEN Raise("KeyError")
            ELSE IF IntOf(parts[1]) >= Len(obj.val) THEN Raise("IndexError")
            ELSE LET item == obj.val[IntOf(parts[1]) + 1]
                 IN IF Len(parts) = 1 THEN Ok(item)
                    ELSE IF IsNest(item) THEN GetItem(item, parts[2])
                    ELSE Raise("TypeError")
       ELSE IF key \in Range(Keys(obj)) THEN Ok(Get(obj, key))
            ELSE IF parts = <<>> THEN Raise("KeyError")
            ELSE IF parts[1] \notin Range(Keys(obj)) THEN Raise("KeyError")
            ELSE LET item == Get(obj, parts[1])
                 IN IF Len(parts) = 1 THEN Ok(item)
                    ELSE IF IsNest(item) THEN GetItem(item, parts[2])
                    ELSE Raise("TypeError")

\* longest path string of a call
MaxPath == 4

\* {'a': ['z'], 'b': 's'}, ['p', {'a': 'q'}], [['z', 'w']] and
\* {'a b': 'x', 'a': {'b': 'y'}}
Nests ==
    { Dict(<< <<(<<"a">>), List(<<Str(<<"z">>)>>)>>, <<(<<"b">>), Str(<<"s">>)>> >>),
      List(<< Str(<<"p">>), Dict(<< <<(<<"a">>), Str(<<"q">>)>> >>) >>),
      List(<< List(<<Str(<<"z">>), Str(<<"w">>)>>) >>),
      Dict(<< <<(<<"a", " ", "b">>), Str(<<"x">>)>>,
              <<(<<"a">>), Dict(<< <<(<<"b">>), Str(<<"y">>)>> >>)>> >>) }

\* the path strings of the calls
Paths == UNION {[1..n -> {"a", "b", "x", "0", "1", " "}] : n \in 1..MaxPath}

InitGetItem ==
    /\ EmptyDirectory(EmptyServer) /\ XferIdle /\ ConnIdle /\ BlastIdle
    /\ call \in Nests \X Paths
    /\ result = <<>>
    /\ returned = FALSE

\* result = n[path]
Index ==
    /\ ~returned
    /\ result' = GetItem(call[1], call[2])
    /\ returned' = TRUE
    /\ UNCHANGED call
    /\ UNCHANGED <<wgsVars, xferVars, connVars, blastVars>>

NextGetItem == Index

SpecGetItem == InitGetItem /\ [][NextGetItem]_vars

\* the components k1, ..., km of a path
RECURSIVE Components(_)
Components(path) ==
    LET parts == SplitOnce(path)
    IN IF parts = <<>> THEN <<>>
       ELSE IF Len(parts) = 1 THEN <<parts[1]>>
       ELSE <<parts[1]>> \o Components(parts[2])

\* x[k] for a component k: of a Nest by Nest.__getitem__, of a string by the
\* indexing of str, which takes no string
Subscript(x, k) == IF IsNest(x) THEN GetItem(x, k) ELSE Raise("TypeError")

\* n[k1][k2]...[km]
RECURSIVE Chained(_, _)
Chained(x, ks) ==
    IF ks = <<>> THEN Ok(x)
    ELSE LET r == Subscript(x, ks[1])
         IN IF r.exc = "none" THEN Chained(r.value, Tail(ks)) ELSE r

\* C28: n['k1 k2 ... km'] is n['k1']['k2']...['km'], and a path that does
\* not lead to a value raises KeyError and no other exception.
C28_PathIsChainedIndexing ==
    returned /\ Components(call[2]) # <<>> =>
      /\ result = Chained(call[1], Components(call[2]))
      /\ result.exc \in {"none", "KeyError"}

-----------------------------------------------------------------------------
(* acc2gi.py: the requests of main *)

\* largest number of accession numbers of a run
MaxAccessions == 3

\* largest value of --nreq
MaxNreq == 3

\* largest value of --max
MaxLimit == 4

\* the accession numbers of the run: the first, the second, ...
Accessions(L) == [i \in 1..L |-> i]

\* args.max if args.max >= 0 else len(accessions)
total_requests == IF call.max >= 0 THEN call.max ELSE call.L

\* the arguments of a run; --max is -1 when it is not given
InitAcc ==
    /\ EmptyDirectory(EmptyServer) /\ XferIdle /\ ConnIdle /\ BlastIdle
    /\ call \in [L : 0..MaxAccessions, nreq : 1..MaxNreq, max : -1..MaxLimit]
    /\ result = <<>>
    /\ returned = FALSE

\* for i in range(0, total_requests, args.nreq): print_acc2gi(...), which
\* makes the request of entrez.on_search for the group it is given
print_acc2gi ==
    /\ ~returned
    /\ LET i == Len(result) * call.nreq
       IN IF i < total_requests
          THEN /\ result' = Append(result, PySlice(Accessions(call.L), i,
                                                   Min(i + call.nreq, total_requests)))
               /\ UNCHANGED returned
          ELSE /\ returned' = TRUE
               /\ UNCHANGED result
    /\ UNCHANGED call
    /\ UNCHANGED <<wgsVars, xferVars, connVars, blastVars>>

NextAcc == print_acc2gi

SpecAcc == InitAcc /\ [][NextAcc]_vars

\* the groups of the requests, one after the other
RECURSIVE Concat(_)
Concat(groups) == IF groups = <<>> THEN <<>> ELSE Head(groups) \o Concat(Tail(groups))

\* C29: the requests hold the first min(max, L) accessions (all L for a
\* negative max) once each and in input order, in groups of at most nreq,
\* and no request is made for an empty group.
C29_GroupsOfRequests ==
    returned =>
      /\ Concat(result) = SubSeq(Accessions(call.L), 1, Min(total_requests, call.L))
      /\ \A g \in DOMAIN result : Len(result[g]) <= call.nreq
      /\ \A g \in DOMAIN result : result[g] # <<>>

-----------------------------------------------------------------------------
(* web_blast.py: main and check_periodically *)

\* largest value of --wait
MaxWait == 2

\* largest estimated time (RTOE) that the server answers
MaxRtoe == 2

\* number of status checks that the server can answer with WAITING
MaxPolls == 3

\* the values of Status= in the answers of the server
Statuses == {"WAITING", "READY", "FAILED", "UNKNOWN"}

\* a loop without the exit for the other statuses
Handle_NoExit(s) == IF s = "WAITING" THEN "sleep" ELSE "return"

\* if status == 'WAITING': time.sleep(wait); elif status != 'READY':
\* sys.exit(...); the loop ends with status == 'READY'
Handle(s) ==
    IF s = "WAITING" THEN "sleep"
    ELSE IF s # "READY" THEN "exit"
    ELSE "return"

\* the program is started with its arguments; --wait is args.wait
InitBlast ==
    /\ EmptyDirectory(EmptyServer) /\ XferIdle /\ ConnIdle
    /\ call \in [wait : 1..MaxWait]
    /\ result = <<>>
    /\ returned = FALSE
    /\ blast_pc = "send_query"
    /\ status = "None"
    /\ polls = 0
    /\ waited = <<>>

\* rid, rtoe = send_query(...); time.sleep(rtoe); a request that fails or an
\* answer without RID and RTOE ends the program in the handlers of main
send_query ==
    /\ blast_pc = "send_query"
    /\ \/ \E rtoe \in 0..MaxRtoe :
            /\ waited' = <<rtoe>>
            /\ blast_pc' = "poll"
       \/ /\ blast_pc' = "exit"
          /\ UNCHANGED waited
    /\ UNCHANGED <<status, polls>>
    /\ UNCHANGED <<wgsVars, xferVars, connVars, libVars>>

\* status = re.findall('Status=(.*)', requests.get(url).text)[0]; a request
\* that fails or an answer without Status= ends the program in the handlers
\* of main
Poll ==
    /\ blast_pc = "poll"
    /\ \/ \E s \in Statuses :
            /\ s = "WAITING" => polls < MaxPolls
            /\ status' = s
            /\ polls' = polls + 1
            /\ blast_pc' = "check"
       \/ /\ blast_pc' = "exit"
          /\ UNCHANGED <<status, polls>>
    /\ UNCHANGED waited
    /\ UNCHANGED <<wgsVars, xferVars, connVars, libVars>>

\* the if statement of the loop and the test of the while
Check ==
    /\ blast_pc = "check"
    /\ CASE Handle(status) = "sleep" ->
              /\ waited' = Append(waited, call.wait)
              /\ blast_pc' = "poll"
         [] Handle(status) = "exit" ->
              /\ blast_pc' = "exit"
              /\ UNCHANGED waited
         [] OTHER ->
              /\ blast_pc' = "results"
              /\ UNCHANGED waited
    /\ UNCHANGED <<status, polls>>
    /\ UNCHANGED <<wgsVars, xferVars, connVars, libVars>>

\* results = requests.get(url_results).text.strip()
GetResults ==
    /\ blast_pc = "results"
    /\ blast_pc' = "output"
    /\ UNCHANGED <<status, polls, waited>>
    /\ UNCHANGED <<wgsVars, xferVars, connVars, libVars>>

\* output_results(results, args.format, args.output)
output_results ==
    /\ blast_pc = "output"
    /\ blast_pc' = "done"
    /\ UNCHANGED <<status, polls, waited>>
    /\ UNCHANGED <<wgsVars, xferVars, connVars, libVars>>

NextBlast ==
    \/ send_query
    \/ Poll
    \/ Check
    \/ GetResults
    \/ output_results

SpecBlast == InitBlast /\ [][NextBlast]_vars

\* the statements of the program are executed one after the other
SpecBlastLive == SpecBlast /\ WF_vars(NextBlast)

\* the results are requested after READY only; the estimated time is waited
\* before the first check and 'wait' seconds before each of the others,
\* which follow a WAITING
ResultsAfterReady ==
    /\ blast_pc \in {"results", "output", "done"} => status = "READY" /\ polls > 0
    /\ blast_pc = "poll" => Len(waited) = polls + 1
    /\ blast_pc = "poll" /\ polls > 0 => status = "WAITING"
    /\ \A i \in 2..Len(waited) : waited[i] = call.wait

\* a status that is neither WAITING nor READY ends the program, and a
\* program that has ended makes no request
FailsOnOtherStatus ==
    /\ blast_pc = "check" /\ status \notin {"WAITING", "READY"} => blast_pc' = "exit"
    /\ blast_pc = "exit" => blast_pc' = "exit"

\* C30: the results are requested only after a status check returned READY;
\* the status is checked after the estimated time, and again after 'wait'
\* seconds while it is WAITING; the first status that is neither WAITING nor
\* READY ends the program with a failure and without a request for the
\* results; check_periodically ends once the status is not WAITING.
C30_ResultsOnlyAfterReady ==
    /\ []ResultsAfterReady
    /\ [][FailsOnOtherStatus]_vars
    /\ (blast_pc = "check" /\ status # "WAITING") ~> (blast_pc \notin {"poll", "check"})

\* the status was WAITING twice, then READY, and the results were retrieved
C30_Witness == blast_pc = "done" /\ polls = 3 /\ Len(waited) = 3

=============================================================================
